---- MODULE Spec2Model ----
(***************************************************************************)
(* Model of the RabbitMQ stream gateway (src/RabbitMQ/RabbitMQStreams.py): *)
(* the stream registry (streams_status), stream creation with its retry    *)
(* on ConnectionRefusedError (create_stream), bulk initialisation          *)
(* (_init_streams) and the publish path with its missing-stream recovery   *)
(* (send_to_stream).  The broker (rstream Producer) is the environment:    *)
(* it keeps the set of streams that exist and answers each call.           *)
(***************************************************************************)
EXTENDS Integers, Sequences, FiniteSets, TLC

\* ------------------------------------------------------------------ bounds
\* longest channel list handed to _init_streams
MaxChannels == 2
\* largest retry argument a direct caller of create_stream passes
MaxRetryArg == 2
\* largest count argument a direct caller of create_stream passes
MaxCountArg == 1
\* largest number of times the gateway is constructed in one run
MaxConstructions == 2
\* largest number of messages the consumed stream holds
MaxFeed == 3
\* largest number of messages the streams hold together while several calls consume
MaxLog == 2
\* largest number of KeycloakAdmin operations called in one run
MaxAdminCalls == 1
\* largest number of times the locale files are rewritten in one run
MaxEdits == 1

\* ------------------------------------------------------- program constants
\* create_stream(room, retry = 10, count = 0)
DefaultRetry == 10
\* consume_messages: messages = Queue(), whose maxsize 0 means no limit
QueueMaxSize == 0
\* send_to_stream: await self.create_stream(room, 5)
PublishRetry == 5

\* ------------------------------------------------------------ stream names
\* A stream name is a string, modelled as the sequence of its characters.
Whitespace == {" "}

Names == { <<>>, <<" ">>, <<"a">>, <<"b", " ">> }

RECURSIVE lstrip(_)
lstrip(s) ==
    IF s = <<>> THEN s
    ELSE IF Head(s) \in Whitespace THEN lstrip(Tail(s)) ELSE s

RECURSIVE rstrip(_)
rstrip(s) ==
    IF s = <<>> THEN s
    ELSE IF s[Len(s)] \in Whitespace THEN rstrip(SubSeq(s, 1, Len(s) - 1)) ELSE s

\* str.strip()
strip(s) == rstrip(lstrip(s))

\* the guard of create_stream: room.strip() not in [None, '']
NameGiven(room) == strip(room) # <<>>

\* the names a stream can have at the broker
GivenNames == { n \in Names : NameGiven(n) }

\* the callers that consume at the same time
Subs == {1, 2}

\* ----------------------------------------------------------------- messages
\* What callers hand to send_to_stream: two ChatMessage values and a value
\* whose SerializeToString() raises.
Messages == {"m1", "m2", "unserializable"}

\* mutant: a message that cannot be serialised is treated like any other
EncodableAlways(m) == TRUE

Encodable(m) == m # "unserializable"

SerializeToString(m) == <<"bytes", m>>

\* ------------------------------------------------------------------- broker
\* What can go wrong in one broker call, whatever the broker holds.
CreateFaults == {"none", "ConnectionRefusedError", "Exception"}
SendFaults == {"none", "ConnectionRefusedError", "Exception"}

\* Producer.create_stream(room): its answer given the streams the broker holds
ProducerCreateStream(room, fault, streams) ==
    IF fault # "none" THEN fault
    ELSE IF room \in streams THEN "StreamAlreadyExists"
    ELSE "ok"

\* Producer.send(stream = room, ...): its answer
ProducerSend(room, fault, streams) ==
    IF fault # "none" THEN fault
    ELSE IF room \in streams THEN "ok"
    ELSE "StreamDoesNotExist"

\* ------------------------------------------------------------------- state
VARIABLES
    streams_status,  \* self.streams_status: name -> "Unknown" (no key) | "Ready" (True) | "Failed" (False)
    brokerStreams,   \* the streams that exist at the broker
    createCalled,    \* history: names Producer.create_stream was called with
    confirmed,       \* history: names for which it answered ok or StreamAlreadyExists
    pc,              \* position of the gateway call in progress
    channels,        \* _init_streams: its argument
    idx,             \* _init_streams: position of the loop in channels (1-based)
    failed,          \* _init_streams: the local list failed
    outcomes,        \* per create_stream invocation of the call in progress: its name, how it ended, the broker's answer
    room,            \* create_stream / send_to_stream: the stream name
    retry,           \* create_stream: argument retry
    count,           \* create_stream: argument count
    message,         \* send_to_stream: the message to publish
    sent,            \* send_to_stream: the Producer.send calls made, <<stream, bytes>>
    sendAnswer,      \* send_to_stream: the broker's answer to the send
    answers,         \* the broker's answers to the create-stream calls of the call in progress
    ensureCalls,     \* number of create_stream invocations made by the call in progress
    sleeps,          \* number of asyncio.sleep(5) waits of the call in progress
    dropped,         \* number of retry coroutines created and never awaited
    producers,       \* number of Producer objects created so far; self.producer is the last one
    result,          \* how the call ended: "returned" or the exception raised
    sub,             \* consume_messages: position of the generator
    subRoom,         \* consume_messages: argument room
    consumer,        \* consume_messages: TRUE once the local consumer holds a Consumer
    feed,            \* the raw messages of the consumed stream, from the first offset
    offset,          \* how many of them the broker has handed to on_message
    messages,        \* consume_messages: the local Queue messages
    yielded,         \* the messages the generator has yielded to its caller
    raised,          \* the exception or cancellation that ended the subscription ("none": none)
    exitReason,      \* where it was raised
    pending,         \* the exception in flight when the finally block runs
    closeCalls,      \* number of consumer.close() calls
    closeAnswer,     \* how consumer.close() ended
    observed,        \* what the caller of the generator sees at its end
    calls,           \* concurrent consume_messages calls: position, room, offset and yields of each
    queues,          \* the Queue objects those calls created
    logs,            \* what the broker's streams hold
    tokenCache,      \* KeycloakAdmin: the token _get_admin_token has cached (0: none)
    tokenFetches,    \* number of calls of the token endpoint so far; the n-th one issues token n
    adminCalls,      \* number of public KeycloakAdmin operations started so far
    adminPc,         \* position of the KeycloakAdmin operation in progress
    adminOp,         \* the operation in progress and its arguments
    reqNo,           \* which _make_request_with_retry call of the operation this is
    reqMethod,       \* _make_request_with_retry: argument method
    reqUrl,          \* _make_request_with_retry: argument url
    attempt,         \* _make_request_with_retry: the loop variable
    reqs,            \* the HTTP requests it sent: attempt, token carried, answer
    clears,          \* per _clear_token_cache call of it: the attempt, and the tokens issued by then
    waits,           \* the asyncio.sleep waits it made
    reqOutcome,      \* how it ended: a response or an exception
    opResult,        \* how the public operation ended: the value returned or the exception
    keyCache,        \* KeycloakJWTHandler: what __get_public_keys has cached
    serverKeys,      \* the key ids the identity provider publishes now
    verifyToken,     \* verify_token: argument token
    verifyRoles,     \* verify_token: argument roles
    jwksUp,          \* whether the key endpoint answers during the call
    firstKeys,       \* the key ids of public_keys after line 68
    keyFetches,      \* number of requests for the public keys the call made
    verifyResult,    \* how the call ended: the payload or the exception
    files,           \* Localizer: the locale file of each language, on disk
    edits,           \* number of times a locale file was rewritten
    data,            \* Localizer._data
    messageCache,    \* the lru_cache of _cached_get_message
    lang_ctx,        \* the value of lang_ctx in the context of each task
    localized        \* the get_message / reload_language call that just ended

vars == << streams_status, brokerStreams, createCalled, confirmed, pc, channels,
           idx, failed, outcomes, room, retry, count, message, sent, sendAnswer,
           answers, ensureCalls, sleeps, dropped, producers, result,
           sub, subRoom, consumer, feed, offset, messages, yielded, raised,
           exitReason, pending, closeCalls, closeAnswer, observed,
           calls, queues, logs,
           tokenCache, tokenFetches, adminCalls, adminPc, adminOp, reqNo,
           reqMethod, reqUrl, attempt, reqs, clears, waits, reqOutcome, opResult,
           keyCache, serverKeys, verifyToken, verifyRoles, jwksUp, firstKeys,
           keyFetches, verifyResult,
           files, edits, data, messageCache, lang_ctx, localized >>

\* the state of consume_messages
consumeVars == << sub, subRoom, consumer, feed, offset, messages, yielded, raised,
                  exitReason, pending, closeCalls, closeAnswer, observed >>

\* the state of the rest of the gateway and of the broker's streams
gatewayVars == << streams_status, brokerStreams, createCalled, confirmed, pc,
                  channels, idx, failed, outcomes, room, retry, count, message,
                  sent, sendAnswer, answers, ensureCalls, sleeps, dropped,
                  producers, result >>

\* the state of several consume_messages calls running at once
concurrentVars == << calls, queues, logs >>

\* the state of KeycloakAdmin and of the operation it runs
adminVars == << tokenCache, tokenFetches, adminCalls, adminPc, adminOp, reqNo,
               reqMethod, reqUrl, attempt, reqs, clears, waits, reqOutcome, opResult >>

\* the state of KeycloakJWTHandler and of its last verify_token call
jwtVars == << keyCache, serverKeys, verifyToken, verifyRoles, jwksUp, firstKeys,
             keyFetches, verifyResult >>

\* what a step of the gateway, of consume_messages, of KeycloakAdmin and of
\* KeycloakJWTHandler leaves alone
localizerVars == << files, edits, data, messageCache, lang_ctx, localized >>

notGateway == << consumeVars, concurrentVars, adminVars, jwtVars, localizerVars >>
notConsume == << gatewayVars, concurrentVars, adminVars, jwtVars, localizerVars >>
notAdmin == << gatewayVars, consumeVars, concurrentVars, jwtVars, localizerVars >>
notJwt == << gatewayVars, consumeVars, concurrentVars, adminVars, localizerVars >>
notLocalizer == << gatewayVars, consumeVars, concurrentVars, adminVars, jwtVars >>

\* the gateway's state but for the registry
gatewayRest == << brokerStreams, createCalled, confirmed, pc, channels, idx,
                 failed, outcomes, room, retry, count, message, sent,
                 sendAnswer, answers, ensureCalls, sleeps, dropped, producers,
                 result >>

brokerVars == << brokerStreams, createCalled, confirmed >>
initVars == << channels, idx, failed, outcomes >>
publishVars == << message, sent, sendAnswer >>

NoName == <<"-">>

\* ---------------------------------------------------------- create_stream
\* One invocation of create_stream(room, retry, count) against a broker
\* holding `streams`: how it ends ("return" or the exception raised), the
\* broker's answer ("none" when the broker is not called), and its effects.
create_stream(rm, rt, cnt, fault, streams) ==
    IF cnt >= rt THEN
        [ outcome |-> "ConnectionRefusedError", answer |-> "none",
          streams |-> streams, sleeps |-> 0, dropped |-> 0 ]
    ELSE IF ~ NameGiven(rm) THEN
        [ outcome |-> "return", answer |-> "none",
          streams |-> streams, sleeps |-> 0, dropped |-> 0 ]
    ELSE
        LET ans == ProducerCreateStream(rm, fault, streams) IN
        CASE ans = "ok" ->
               [ outcome |-> "return", answer |-> ans,
                 streams |-> streams \cup {rm}, sleeps |-> 0, dropped |-> 0 ]
          [] ans = "ConnectionRefusedError" ->
               \* sleeps, then builds the coroutine of the retry without
               \* awaiting it: the retry never runs and the call returns
               [ outcome |-> "return", answer |-> ans,
                 streams |-> streams, sleeps |-> 1, dropped |-> 1 ]
          [] OTHER ->
               \* StreamAlreadyExists and every other exception propagate
               [ outcome |-> ans, answer |-> ans,
                 streams |-> streams, sleeps |-> 0, dropped |-> 0 ]

\* the broker-side history after one create_stream invocation
CalledAfter(rm, cs) ==
    IF cs.answer = "none" THEN createCalled ELSE createCalled \cup {rm}

ConfirmedAfter(rm, cs) ==
    IF cs.answer \in {"ok", "StreamAlreadyExists"} THEN confirmed \cup {rm}
    ELSE confirmed

AnswersAfter(cs) ==
    IF cs.answer = "none" THEN answers ELSE Append(answers, cs.answer)

\* ------------------------------------------------------------------- Init
\* no consume_messages call has started; the streams are empty
InitConcurrent ==
    /\ calls = [s \in Subs |-> [state |-> "idle", room |-> NoName, offset |-> 0, got |-> <<>>]]
    /\ queues = [s \in Subs |-> <<>>]
    /\ logs = [n \in GivenNames |-> <<>>]

\* KeycloakAdmin just constructed: nothing cached, nothing in progress
NoRequest == [status |-> 0, body |-> "none", error |-> "none", code |-> "none"]

NoOp == [name |-> "none", client_id |-> "None", role_name |-> "-", fields |-> FALSE]

InitAdmin ==
    /\ tokenCache = 0
    /\ tokenFetches = 0
    /\ adminCalls = 0
    /\ adminPc = "idle"
    /\ adminOp = NoOp
    /\ reqNo = 0
    /\ reqMethod = "none"
    /\ reqUrl = <<>>
    /\ attempt = 0
    /\ reqs = <<>>
    /\ clears = <<>>
    /\ waits = <<>>
    /\ reqOutcome = NoRequest
    /\ opResult = NoRequest

\* KeycloakJWTHandler just constructed: no keys cached, no call made
KeyIds == {"k1", "k2"}
NoKeys == [cached |-> FALSE, keys |-> {}]
NoToken == [wellformed |-> FALSE, kid |-> "none", signed |-> FALSE, expired |-> FALSE,
            aud |-> "missing", roles |-> {}]
NoRoles == [given |-> FALSE, list |-> <<>>]

InitJwt ==
    /\ keyCache = NoKeys
    /\ serverKeys = {"k1"}
    /\ verifyToken = NoToken
    /\ verifyRoles = NoRoles
    /\ jwksUp = TRUE
    /\ firstKeys = {}
    /\ keyFetches = 0
    /\ verifyResult = NoRequest

\* the languages with a file under locales/, and the locales a request sets
Langs == {"en", "ar"}
Locales == Langs \cup {"fr"}

\* the message keys callers ask for
MessageKeys == {"greeting"}

\* a message is its pieces in order, a piece a literal or a placeholder
Placeholders == {"{id}"}
Hello == << "hello" >>
Marhaba == << "marhaba" >>
ErrorId == << "error ", "{id}" >>
Texts == { Hello, Marhaba, ErrorId }

\* f"[Missing message for '{key}']"
MissingMessage(key) == << "[Missing message for '", key, "']" >>

\* a locale file: absent, not JSON, or a JSON object of messages by key
NoFile == [kind |-> "absent", messages |-> {}]
InvalidJson == [kind |-> "invalid", messages |-> {}]
JsonFile(ms) == [kind |-> "json", messages |-> ms]
FileContents ==
    { NoFile, InvalidJson } \cup
    { JsonFile({ << k, t >> }) : k \in MessageKeys, t \in Texts }

\* the tasks that serve two requests at the same time
Tasks == {1, 2}
\* lang_ctx was not set in the context
Unset == "unset"

NoCall == [op |-> "none", task |-> 0, key |-> "", kwargs |-> {}, lang |-> "",
           msg |-> <<>>, returned |-> <<>>, exc |-> "none"]

\* _load_json_file(path): the dict read, or RuntimeError
load_json_file(file) ==
    IF file.kind = "absent" THEN [exc |-> "none", dict |-> {}]
    ELSE IF file.kind = "invalid" THEN [exc |-> "RuntimeError", dict |-> {}]
    ELSE [exc |-> "none", dict |-> file.messages]

InitLocalizer ==
    /\ files = [l \in Langs |-> JsonFile({ << "greeting", IF l = "en" THEN Hello ELSE Marhaba >> })]
    /\ edits = 0
    /\ data = [l \in Langs |-> load_json_file(files[l]).dict]
    /\ messageCache = {}
    /\ lang_ctx = [t \in Tasks |-> Unset]
    /\ localized = NoCall

Init ==
    /\ streams_status = [n \in Names |-> "Unknown"]
    /\ brokerStreams \in SUBSET {n \in Names : NameGiven(n)}
    /\ createCalled = {}
    /\ confirmed = {}
    /\ pc = "idle"
    /\ channels = <<>>
    /\ idx = 1
    /\ failed = <<>>
    /\ outcomes = <<>>
    /\ room = NoName
    /\ retry = 0
    /\ count = 0
    /\ message = "none"
    /\ sent = <<>>
    /\ sendAnswer = "none"
    /\ answers = <<>>
    /\ ensureCalls = 0
    /\ sleeps = 0
    /\ dropped = 0
    /\ producers = 1
    /\ result = "none"
    /\ sub = "idle"
    /\ subRoom = NoName
    /\ consumer = FALSE
    /\ feed = <<>>
    /\ offset = 0
    /\ messages = <<>>
    /\ yielded = <<>>
    /\ raised = "none"
    /\ exitReason = "none"
    /\ pending = "none"
    /\ closeCalls = 0
    /\ closeAnswer = "none"
    /\ observed = "none"
    /\ InitConcurrent
    /\ InitAdmin
    /\ InitJwt
    /\ InitLocalizer

\* ---------------------------------------------------------- _init_streams
ChannelLists == UNION { [1..n -> Names] : n \in 0..MaxChannels }

\* a caller awaits _init_streams(chs)
InitStreams(chs) ==
    /\ pc = "idle"
    /\ pc' = "init"
    /\ channels' = chs
    /\ idx' = 1
    /\ failed' = <<>>
    /\ outcomes' = <<>>
    /\ answers' = <<>>
    /\ ensureCalls' = 0
    /\ sleeps' = 0
    /\ dropped' = 0
    /\ result' = "none"
    /\ UNCHANGED << streams_status, brokerVars, room, retry, count, publishVars, producers >>
    /\ UNCHANGED notGateway

\* mutant: StreamAlreadyExists falls through to the generic handler
InitStatusExistsIsError(outcome) ==
    IF outcome = "return" THEN "Ready" ELSE "Failed"

\* the try/except of the loop body: the Registry value it writes
InitStatus(outcome) ==
    IF outcome \in {"return", "StreamAlreadyExists"} THEN "Ready" ELSE "Failed"

\* the two except branches that append the name to failed
InitFailed(outcome) == outcome \notin {"return", "StreamAlreadyExists"}

\* mutant: an exception of create_stream leaves the loop
NextRoomAbortOnFailure(i, outcome, n) ==
    IF outcome \in {"ConnectionRefusedError", "Exception"} THEN n + 1 ELSE i + 1

\* the for loop: every outcome is handled inside the body, the loop goes on
NextRoom(i, outcome, n) == i + 1

\* one iteration of `for room in channels`
InitStreamsRoom(fault) ==
    /\ pc = "init"
    /\ idx <= Len(channels)
    /\ LET rm == channels[idx]
           cs == create_stream(rm, DefaultRetry, 0, fault, brokerStreams)
       IN  /\ streams_status' = [streams_status EXCEPT ![rm] = InitStatus(cs.outcome)]
           /\ failed' = IF InitFailed(cs.outcome) THEN Append(failed, rm) ELSE failed
           /\ outcomes' = Append(outcomes,
                  [room |-> rm, outcome |-> cs.outcome, answer |-> cs.answer])
           /\ brokerStreams' = cs.streams
           /\ createCalled' = CalledAfter(rm, cs)
           /\ confirmed' = ConfirmedAfter(rm, cs)
           /\ answers' = AnswersAfter(cs)
           /\ sleeps' = sleeps + cs.sleeps
           /\ dropped' = dropped + cs.dropped
           /\ idx' = NextRoom(idx, cs.outcome, Len(channels))
    /\ ensureCalls' = ensureCalls + 1
    /\ UNCHANGED << pc, channels, room, retry, count, publishVars, producers, result >>
    /\ UNCHANGED notGateway

\* the loop is over: log and `return channels`
InitStreamsReturn ==
    /\ pc = "init"
    /\ idx > Len(channels)
    /\ pc' = "init_done"
    /\ result' = "returned"
    /\ UNCHANGED << streams_status, brokerVars, initVars, room, retry, count,
                    publishVars, answers, ensureCalls, sleeps, dropped, producers >>
    /\ UNCHANGED notGateway

\* ------------------------------------------------ create_stream, called directly
EnsureStream(rm, rt, cnt, fault) ==
    /\ pc = "idle"
    /\ LET cs == create_stream(rm, rt, cnt, fault, brokerStreams)
       IN  /\ brokerStreams' = cs.streams
           /\ createCalled' = CalledAfter(rm, cs)
           /\ confirmed' = ConfirmedAfter(rm, cs)
           /\ answers' = IF cs.answer = "none" THEN <<>> ELSE <<cs.answer>>
           /\ sleeps' = cs.sleeps
           /\ dropped' = cs.dropped
           /\ result' = IF cs.outcome = "return" THEN "returned" ELSE cs.outcome
    /\ pc' = "ensure_done"
    /\ room' = rm
    /\ retry' = rt
    /\ count' = cnt
    /\ ensureCalls' = 1
    /\ UNCHANGED << streams_status, initVars, publishVars, producers >>
    /\ UNCHANGED notGateway

\* --------------------------------------------------------- send_to_stream
\* mutant: the handler sends the message again once the stream is back
RecoverSentAgain(s, outcome, rm, bytes) ==
    IF outcome \in {"return", "StreamAlreadyExists"} THEN Append(s, <<rm, bytes>>) ELSE s

\* the handler of StreamDoesNotExist sends nothing again
RecoverSent(s, outcome, rm, bytes) == s

\* mutant: the generic handler logs the exception and does not raise it again
SendErrorSwallowed(e) == "returned"

\* the generic handler of send_to_stream: log, then `raise` the same exception
SendError(e) == e

\* serialise and send; on StreamDoesNotExist read self.streams_status[room]
SendToStream(rm, m, fault) ==
    /\ pc = "idle"
    /\ room' = rm
    /\ message' = m
    /\ answers' = <<>>
    /\ ensureCalls' = 0
    /\ sleeps' = 0
    /\ dropped' = 0
    /\ IF ~ Encodable(m) THEN
          /\ sent' = <<>>
          /\ sendAnswer' = "none"
          /\ result' = SendError("EncodeError")
          /\ pc' = "publish_done"
       ELSE
          LET ans == ProducerSend(rm, fault, brokerStreams) IN
          /\ sent' = << <<rm, SerializeToString(m)>> >>
          /\ sendAnswer' = ans
          /\ CASE ans = "ok" ->
                    result' = "returned" /\ pc' = "publish_done"
               [] ans = "StreamDoesNotExist" /\ streams_status[rm] = "Unknown" ->
                    result' = "KeyError" /\ pc' = "publish_done"
               [] ans = "StreamDoesNotExist" /\ streams_status[rm] # "Unknown" ->
                    result' = "none" /\ pc' = "publish_recover"
               [] OTHER ->
                    result' = SendError(ans) /\ pc' = "publish_done"
    /\ UNCHANGED << streams_status, brokerVars, initVars, retry, count, producers >>
    /\ UNCHANGED notGateway

\* the recovery: await self.create_stream(room, 5) and its three handlers
SendToStreamRecover(fault) ==
    /\ pc = "publish_recover"
    /\ LET cs == create_stream(room, PublishRetry, 0, fault, brokerStreams)
       IN  /\ streams_status' =
                 IF cs.outcome = "return"
                 THEN [streams_status EXCEPT ![room] = "Ready"]
                 ELSE streams_status
           /\ brokerStreams' = cs.streams
           /\ createCalled' = CalledAfter(room, cs)
           /\ confirmed' = ConfirmedAfter(room, cs)
           /\ answers' = AnswersAfter(cs)
           /\ sleeps' = sleeps + cs.sleeps
           /\ dropped' = dropped + cs.dropped
           /\ outcomes' = << [room |-> room, outcome |-> cs.outcome, answer |-> cs.answer] >>
           /\ sent' = RecoverSent(sent, cs.outcome, room, SerializeToString(message))
    /\ ensureCalls' = ensureCalls + 1
    /\ retry' = PublishRetry
    /\ count' = 0
    /\ result' = "returned"
    /\ pc' = "publish_done"
    /\ UNCHANGED << channels, idx, failed, room, message, sendAnswer, producers >>
    /\ UNCHANGED notGateway

\* ---------------------------------------------------- __new__ / __init__
\* RabbitMQStreams(logger) is called again: __new__ hands out the one
\* instance and __init__ runs on it again, with a new Producer and an empty
\* streams_status.  Taken while no gateway call is in progress.
Construct ==
    /\ pc = "idle"
    /\ producers < MaxConstructions
    /\ producers' = producers + 1
    /\ streams_status' = [n \in Names |-> "Unknown"]
    /\ UNCHANGED << brokerVars, pc, initVars, room, retry, count, publishVars,
                    answers, ensureCalls, sleeps, dropped, result >>
    /\ UNCHANGED notGateway

\* ------------------------------------------------------------- environment
\* the caller takes the result of the call that ended
Return ==
    /\ pc \in {"init_done", "ensure_done", "publish_done"}
    /\ pc' = "idle"
    /\ channels' = <<>>
    /\ idx' = 1
    /\ failed' = <<>>
    /\ outcomes' = <<>>
    /\ room' = NoName
    /\ retry' = 0
    /\ count' = 0
    /\ message' = "none"
    /\ sent' = <<>>
    /\ sendAnswer' = "none"
    /\ answers' = <<>>
    /\ ensureCalls' = 0
    /\ sleeps' = 0
    /\ dropped' = 0
    /\ result' = "none"
    /\ UNCHANGED << streams_status, brokerVars, producers >>
    /\ UNCHANGED notGateway

\* a stream is deleted at the broker (by an operator or a retention policy)
BrokerDeleteStream(n) ==
    /\ n \in brokerStreams
    /\ brokerStreams' = brokerStreams \ {n}
    /\ UNCHANGED << streams_status, createCalled, confirmed, pc, initVars, room,
                    retry, count, publishVars, answers, ensureCalls, sleeps,
                    dropped, producers, result >>
    /\ UNCHANGED notGateway

\* a stream is created at the broker by another client of the broker
BrokerCreateStream(n) ==
    /\ NameGiven(n)
    /\ n \notin brokerStreams
    /\ brokerStreams' = brokerStreams \cup {n}
    /\ UNCHANGED << streams_status, createCalled, confirmed, pc, initVars, room,
                    retry, count, publishVars, answers, ensureCalls, sleeps,
                    dropped, producers, result >>
    /\ UNCHANGED notGateway

Next ==
    \/ \E chs \in ChannelLists : InitStreams(chs)
    \/ \E f \in CreateFaults : InitStreamsRoom(f)
    \/ InitStreamsReturn
    \/ \E rm \in Names, rt \in 0..MaxRetryArg, cnt \in 0..MaxCountArg, f \in CreateFaults :
          EnsureStream(rm, rt, cnt, f)
    \/ \E rm \in Names, m \in Messages, f \in SendFaults : SendToStream(rm, m, f)
    \/ \E f \in CreateFaults : SendToStreamRecover(f)
    \/ Return
    \/ \E n \in Names : BrokerDeleteStream(n)
    \/ \E n \in Names : BrokerCreateStream(n)

\* the gateway constructed once at start-up
Spec == Init /\ [][Next]_vars

\* the gateway with RabbitMQStreams(logger) called again between its calls
NextLifecycle ==
    \/ Next
    \/ Construct

SpecLifecycle == Init /\ [][NextLifecycle]_vars

TypeOK ==
    /\ streams_status \in [Names -> {"Unknown", "Ready", "Failed"}]
    /\ brokerStreams \subseteq Names
    /\ confirmed \subseteq createCalled
    /\ pc \in {"idle", "init", "init_done", "ensure_done", "publish_recover", "publish_done"}

\* ---------------------------------------------------------- consume_messages
\* What the consumed stream can hold: serialised ChatMessages and bytes
\* that ParseFromString rejects.
RawMessages == { SerializeToString("m1"), SerializeToString("m2"), <<"garbage">> }

Feeds == UNION { [1..n -> RawMessages] : n \in 0..MaxFeed }

\* ChatMessage().ParseFromString(msg): whether it succeeds, and the message
Decodable(raw) == Len(raw) = 2 /\ raw[1] = "bytes"

ParseFromString(raw) == raw[2]

\* what can go wrong in Consumer(...), in consumer.start() and
\* consumer.subscribe(...), in the pull loop and in consumer.close()
ConstructorFaults == {"none", "Exception"}
OpenFaults == {"none", "ConnectionRefusedError", "Exception", "CancelledError"}
LoopErrors == {"Exception"}
CloseFaults == {"none", "CloseError"}

\* asyncio.Queue.full()
Full(q) == QueueMaxSize > 0 /\ Len(q) >= QueueMaxSize

\* mutant: the callback puts the newest message in front
on_messageNewestFirst(q, raw) ==
    IF Decodable(raw) THEN <<ParseFromString(raw)>> \o q ELSE q

\* the callback on_message: parse and put; a parse error is logged and dropped
on_message(q, raw) ==
    IF Decodable(raw) THEN Append(q, ParseFromString(raw)) ELSE q

\* mutant: the handler logs and does not raise again
OpenErrorSwallowed(e) == "none"

\* the outer handler `except Exception`: log, then `raise` the same exception
OpenError(e) == e

\* the two handlers of the pull loop, for CancelledError and for Exception:
\* both log and let the generator run on to the finally block
LoopHandled(e) == "none"

\* mutant: the try/except sits inside `while True`, so a handled exception
\* or cancellation of the pull loop is followed by the next messages.get()
ExitToLoopAgain(reason) ==
    IF reason = "loop" THEN "waiting" ELSE "exiting"

\* mutant: the consumer is closed after the pull loop only, not in a finally
ExitToLeakOnOpenError(reason) ==
    IF reason \in {"start", "subscribe"} THEN "closed" ELSE "exiting"

\* the finally block is entered on every way out of the try
ExitTo(reason) == "exiting"

\* what the caller of the generator sees once the finally block is done,
\* given the exception in flight
Observed(pend) ==
    CASE pend = "none" -> "StopAsyncIteration"
      [] pend = "GeneratorExit" -> "closed"
      [] OTHER -> pend

\* mutant: an exception of consumer.close() leaves the finally block
AfterCloseRaises(pend, fault) ==
    IF fault # "none" THEN fault ELSE Observed(pend)

\* the try/except around consumer.close(): its exception is logged only
AfterClose(pend, fault) == Observed(pend)

\* the caller starts iterating consume_messages(rm): consumer = Consumer(...)
\* and messages = Queue()
ConsumeMessages(rm, fd, fault) ==
    /\ sub = "idle"
    /\ subRoom' = rm
    /\ feed' = fd
    /\ offset' = 0
    /\ messages' = <<>>
    /\ yielded' = <<>>
    /\ closeCalls' = 0
    /\ closeAnswer' = "none"
    /\ observed' = "none"
    /\ IF fault = "none" THEN
          /\ consumer' = TRUE
          /\ sub' = "opening"
          /\ UNCHANGED << raised, exitReason, pending >>
       ELSE
          /\ consumer' = FALSE
          /\ raised' = fault
          /\ exitReason' = "constructor"
          /\ pending' = OpenError(fault)
          /\ sub' = ExitTo("constructor")
    /\ UNCHANGED notConsume

\* an await of the opening phase ends with fault: a cancellation passes the
\* handler for Exception, anything else goes through it
OpenFailure(fault, reason) ==
    /\ raised' = fault
    /\ exitReason' = reason
    /\ pending' = IF fault = "CancelledError" THEN fault ELSE OpenError(fault)
    /\ sub' = ExitTo(reason)

\* await consumer.start()
ConsumerStart(fault) ==
    /\ sub = "opening"
    /\ IF fault = "none"
       THEN sub' = "subscribing" /\ UNCHANGED << raised, exitReason, pending >>
       ELSE OpenFailure(fault, "start")
    /\ UNCHANGED << subRoom, consumer, feed, offset, messages, yielded,
                    closeCalls, closeAnswer, observed >>
    /\ UNCHANGED notConsume

\* await consumer.subscribe(stream = room, callback = on_message, offset FIRST)
ConsumerSubscribe(fault) ==
    /\ sub = "subscribing"
    /\ IF fault = "none"
       THEN sub' = "waiting" /\ UNCHANGED << raised, exitReason, pending >>
       ELSE OpenFailure(fault, "subscribe")
    /\ UNCHANGED << subRoom, consumer, feed, offset, messages, yielded,
                    closeCalls, closeAnswer, observed >>
    /\ UNCHANGED notConsume

\* the broker hands the next message of the stream to on_message
BrokerDeliver ==
    /\ sub \in {"waiting", "suspended"}
    /\ offset < Len(feed)
    /\ ~ Full(messages)
    /\ offset' = offset + 1
    /\ messages' = on_message(messages, feed[offset + 1])
    /\ UNCHANGED << sub, subRoom, consumer, feed, yielded, raised, exitReason,
                    pending, closeCalls, closeAnswer, observed >>
    /\ UNCHANGED notConsume

\* msg = await messages.get(); yield msg
PullMessage ==
    /\ sub = "waiting"
    /\ messages # <<>>
    /\ yielded' = Append(yielded, Head(messages))
    /\ messages' = Tail(messages)
    /\ sub' = "suspended"
    /\ UNCHANGED << subRoom, consumer, feed, offset, raised, exitReason,
                    pending, closeCalls, closeAnswer, observed >>
    /\ UNCHANGED notConsume

\* the caller asks for the next message: the generator resumes after the yield
NextMessage ==
    /\ sub = "suspended"
    /\ sub' = "waiting"
    /\ UNCHANGED << subRoom, consumer, feed, offset, messages, yielded, raised,
                    exitReason, pending, closeCalls, closeAnswer, observed >>
    /\ UNCHANGED notConsume

\* mutant: the handlers record the consumed stream as failed
HandledStatusFailed(status, rm) == [status EXCEPT ![rm] = "Failed"]

\* self.streams_status after a handler of the pull loop: they log, no more
HandledStatus(status, rm) == status

\* the pull loop is left with exception e, which one of its handlers takes
LeaveLoop(e) ==
    /\ raised' = e
    /\ exitReason' = "loop"
    /\ pending' = LoopHandled(e)
    /\ sub' = ExitTo("loop")
    /\ streams_status' = HandledStatus(streams_status, subRoom)
    /\ UNCHANGED << subRoom, consumer, feed, offset, messages, yielded,
                    closeCalls, closeAnswer, observed >>
    /\ UNCHANGED << gatewayRest, concurrentVars, adminVars, jwtVars, localizerVars >>

\* the caller's task is cancelled while it waits in messages.get()
Cancel ==
    /\ sub = "waiting"
    /\ messages = <<>>
    /\ LeaveLoop("CancelledError")

\* messages.get() raises, or the caller throws an exception in at the yield
LoopFailure(e) ==
    /\ sub \in {"waiting", "suspended"}
    /\ LeaveLoop(e)

\* the caller stops iterating and the generator is closed: GeneratorExit is
\* raised at the yield and no handler takes it
Aclose ==
    /\ sub = "suspended"
    /\ raised' = "GeneratorExit"
    /\ exitReason' = "aclose"
    /\ pending' = "GeneratorExit"
    /\ sub' = ExitTo("aclose")
    /\ UNCHANGED << subRoom, consumer, feed, offset, messages, yielded,
                    closeCalls, closeAnswer, observed >>
    /\ UNCHANGED notConsume

\* finally, with a consumer: await consumer.close() in its own try/except
ConsumerClose(fault) ==
    /\ sub = "exiting"
    /\ consumer
    /\ closeCalls' = closeCalls + 1
    /\ closeAnswer' = IF fault = "none" THEN "ok" ELSE fault
    /\ observed' = AfterClose(pending, fault)
    /\ sub' = "closed"
    /\ UNCHANGED << subRoom, consumer, feed, offset, messages, yielded, raised,
                    exitReason, pending >>
    /\ UNCHANGED notConsume

\* finally, with consumer still None: nothing to close
FinallyWithoutConsumer ==
    /\ sub = "exiting"
    /\ ~ consumer
    /\ observed' = Observed(pending)
    /\ sub' = "closed"
    /\ UNCHANGED << subRoom, consumer, feed, offset, messages, yielded, raised,
                    exitReason, pending, closeCalls, closeAnswer >>
    /\ UNCHANGED notConsume

\* the caller has seen the end of the generator; its locals are gone
ConsumeEnd ==
    /\ sub = "closed"
    /\ sub' = "idle"
    /\ subRoom' = NoName
    /\ consumer' = FALSE
    /\ feed' = <<>>
    /\ offset' = 0
    /\ messages' = <<>>
    /\ yielded' = <<>>
    /\ raised' = "none"
    /\ exitReason' = "none"
    /\ pending' = "none"
    /\ closeCalls' = 0
    /\ closeAnswer' = "none"
    /\ observed' = "none"
    /\ UNCHANGED notConsume

NextConsume ==
    \/ \E rm \in Names, fd \in Feeds, f \in ConstructorFaults : ConsumeMessages(rm, fd, f)
    \/ \E f \in OpenFaults : ConsumerStart(f)
    \/ \E f \in OpenFaults : ConsumerSubscribe(f)
    \/ BrokerDeliver
    \/ PullMessage
    \/ NextMessage
    \/ Cancel
    \/ \E e \in LoopErrors : LoopFailure(e)
    \/ Aclose
    \/ \E f \in CloseFaults : ConsumerClose(f)
    \/ FinallyWithoutConsumer
    \/ ConsumeEnd

\* one caller after another consuming a stream
SpecConsume == Init /\ [][NextConsume]_vars

\* the same, where the finally block, once entered, runs to its end: the
\* event loop runs the generator on and consumer.close() returns or raises
SpecConsumeFair ==
    /\ SpecConsume
    /\ WF_vars(\E f \in CloseFaults : ConsumerClose(f))
    /\ WF_vars(FinallyWithoutConsumer)

\* ------------------------------------------ consume_messages, several calls
\* OffsetType.FIRST: a subscription reads its stream from the first message
OffsetFirst == 0

\* mutant: one Queue, made once and kept on the gateway object
QueueOfShared(s) == 1

\* messages = Queue(): the queue a call puts to and gets from is the one it
\* created itself, a local of that call
QueueOf(s) == s

\* the bytes the broker hands to the callback of call s, marked with the
\* subscription they were delivered to
DeliveredTo(s, raw) ==
    IF Decodable(raw) THEN << raw[1], << s, raw[2] >> >> ELSE raw

RECURSIVE LogSize(_)
LogSize(ns) ==
    IF ns = {} THEN 0
    ELSE LET n == CHOOSE x \in ns : TRUE IN Len(logs[n]) + LogSize(ns \ {n})

\* a publisher appends a message to a stream
BrokerAppend(n, raw) ==
    /\ LogSize(GivenNames) < MaxLog
    /\ logs' = [logs EXCEPT ![n] = Append(@, raw)]
    /\ UNCHANGED << calls, queues >>
    /\ UNCHANGED << gatewayVars, consumeVars, adminVars, jwtVars, localizerVars >>

\* call s of consume_messages(rm) up to the pull loop: its own Consumer, its
\* own Queue, started and subscribed from the first offset
Subscribe(s, rm) ==
    /\ calls[s].state \in {"idle", "closed"}
    /\ calls' = [calls EXCEPT ![s] = [state |-> "open", room |-> rm,
                                       offset |-> OffsetFirst, got |-> <<>>]]
    /\ queues' = [queues EXCEPT ![QueueOf(s)] = <<>>]
    /\ UNCHANGED logs
    /\ UNCHANGED << gatewayVars, consumeVars, adminVars, jwtVars, localizerVars >>

\* the broker hands the next message of the stream to the callback of call s
Deliver(s) ==
    /\ calls[s].state = "open"
    /\ calls[s].offset < Len(logs[calls[s].room])
    /\ ~ Full(queues[QueueOf(s)])
    /\ calls' = [calls EXCEPT ![s].offset = @ + 1]
    /\ queues' = [queues EXCEPT ![QueueOf(s)] =
                     on_message(@, DeliveredTo(s, logs[calls[s].room][calls[s].offset + 1]))]
    /\ UNCHANGED logs
    /\ UNCHANGED << gatewayVars, consumeVars, adminVars, jwtVars, localizerVars >>

\* call s: msg = await messages.get(); yield msg
Pull(s) ==
    /\ calls[s].state = "open"
    /\ queues[QueueOf(s)] # <<>>
    /\ calls' = [calls EXCEPT ![s].got = Append(@, Head(queues[QueueOf(s)]))]
    /\ queues' = [queues EXCEPT ![QueueOf(s)] = Tail(@)]
    /\ UNCHANGED logs
    /\ UNCHANGED << gatewayVars, consumeVars, adminVars, jwtVars, localizerVars >>

\* call s ends: its consumer is closed
Unsubscribe(s) ==
    /\ calls[s].state = "open"
    /\ calls' = [calls EXCEPT ![s].state = "closed"]
    /\ UNCHANGED << queues, logs >>
    /\ UNCHANGED << gatewayVars, consumeVars, adminVars, jwtVars, localizerVars >>

NextConcurrent ==
    \/ \E n \in GivenNames, raw \in RawMessages : BrokerAppend(n, raw)
    \/ \E s \in Subs, rm \in GivenNames : Subscribe(s, rm)
    \/ \E s \in Subs : Deliver(s)
    \/ \E s \in Subs : Pull(s)
    \/ \E s \in Subs : Unsubscribe(s)

\* several callers consuming at once while the streams grow
SpecConcurrent == Init /\ [][NextConcurrent]_vars

\* ------------------------------------------------------------ KeycloakAdmin
\* self.max_retries and self.retry_delay (seconds)
max_retries == 3
retry_delay == 1

\* what the identity provider answers to a request: a status with a body
\* that is a JSON object, the empty JSON object, not JSON, or announced as JSON
\* and not parseable; or the request fails in aiohttp
OkStatuses == {200, 201, 204}
ErrorStatuses == {400, 401, 403, 404, 500}
Bodies == {"json", "empty", "none", "malformed"}
TransportErrors == {"ClientConnectionError", "TimeoutError", "ClientPayloadError"}

Response(st, body) == [status |-> st, body |-> body, error |-> "none", code |-> "none"]
Raised(type, st, code) == [status |-> st, body |-> "none", error |-> type, code |-> code]
BusinessException(code) == Raised("BusinessException", 0, code)

HttpAnswers ==
    { Response(st, b) : st \in OkStatuses, b \in Bodies }
      \cup { Response(st, "none") : st \in ErrorStatuses }
      \cup { Raised(t, 0, "none") : t \in TransportErrors }

\* what the token endpoint answers: a token, 401 for the client credentials,
\* no connection, or a body without access_token
TokenAnswers == {"ok", "Unauthorized", "ClientConnectionError", "KeyError"}

\* response.raise_for_status()
raise_for_status(st) == st >= 400

\* mutant: the token is fetched anew on every call
get_admin_tokenUncached(cache, fetched, tok) ==
    [ exc |-> Response(200, "json"), token |-> fetched + 1,
      cache |-> fetched + 1, fetched |-> fetched + 1 ]

\* _get_admin_token under alru_cache(maxsize=1): the cached token, or a call
\* of the token endpoint whose result is cached only when it is a token
get_admin_token(cache, fetched, tok) ==
    IF cache # 0 THEN
        [ exc |-> Response(200, "json"), token |-> cache, cache |-> cache, fetched |-> fetched ]
    ELSE IF tok = "ok" THEN
        [ exc |-> Response(200, "json"), token |-> fetched + 1,
          cache |-> fetched + 1, fetched |-> fetched + 1 ]
    ELSE
        [ exc |-> IF tok = "Unauthorized"
                  THEN Raised("ClientResponseError", 401, "none")
                  ELSE Raised(tok, 0, "none"),
          token |-> 0, cache |-> 0, fetched |-> fetched + 1 ]

\* session.request(...) and what lines 100-106 make of its answer
request(ans) ==
    IF ans.error # "none" THEN ans
    ELSE IF raise_for_status(ans.status) THEN Raised("ClientResponseError", ans.status, "none")
    ELSE IF ans.body = "malformed" THEN Raised("JSONDecodeError", 0, "none")
    ELSE ans

\* the body of the try of one attempt: the token, then the request
TryBody(cache, fetched, tok, ans) ==
    LET tk == get_admin_token(cache, fetched, tok) IN
    IF tk.exc.error # "none" THEN
        [ sent |-> FALSE, token |-> 0, cache |-> tk.cache, fetched |-> tk.fetched,
          result |-> tk.exc ]
    ELSE
        [ sent |-> TRUE, token |-> tk.token, cache |-> tk.cache, fetched |-> tk.fetched,
          result |-> request(ans) ]

\* 'user' in url.lower(), for a url given as its path segments
SegmentsWithUser == {"users", "superuser"}
\* mutant: the url is never taken for a user url
UserInUrlNever(url) == FALSE

UserInUrl(url) == \E i \in 1..Len(url) : url[i] \in SegmentsWithUser

\* whether every class named in `except (aiohttp.ClientConnectionError,
\* aiohttp.ClientTimeout)` is an exception class: aiohttp.ClientTimeout is the
\* timeout configuration object, so reaching that clause raises TypeError
ExceptClauseValid == FALSE

\* the aiohttp exceptions that are ClientConnectionError, and ClientError
ConnectionErrors == {"ClientConnectionError"}
ClientErrors == {"ClientConnectionError", "ClientPayloadError", "ClientResponseError"}

\* mutant: only 401 counts as an invalid token
TokenInvalid401Only(st) == st = 401

\* `e.status in [401, 403]`
TokenInvalid(st) == st \in {401, 403}

\* mutant: the cached token survives the clear
clear_token_cacheKeeps(cache) == cache

\* _clear_token_cache: self._get_admin_token.cache_clear()
clear_token_cache(cache) == 0

Handled(next, exc, clear, wait) ==
    [ next |-> next, exc |-> exc, clear |-> clear, wait |-> wait ]

\* the except clauses of the loop body for exception exc raised in attempt att
ExceptClauses(exc, att, url) ==
    IF exc.error = "ClientResponseError" THEN
        IF TokenInvalid(exc.status) THEN
            IF att < max_retries - 1
            THEN Handled("continue", exc, TRUE, 0)
            ELSE Handled("raise", BusinessException("AUTH_TOKEN_EXPIRED"), FALSE, 0)
        ELSE IF exc.status = 404 THEN
            IF UserInUrl(url)
            THEN Handled("raise", BusinessException("USER_NOT_FOUND"), FALSE, 0)
            ELSE Handled("raise", BusinessException("UNEXPECTED_ERROR"), FALSE, 0)
        ELSE IF exc.status >= 500 THEN
            Handled("raise", BusinessException("AUTH_SERVER_UNAVAILABLE"), FALSE, 0)
        ELSE
            Handled("raise", BusinessException("UNEXPECTED_ERROR"), FALSE, 0)
    ELSE IF ~ ExceptClauseValid THEN
        Handled("raise", Raised("TypeError", 0, "none"), FALSE, 0)
    ELSE IF exc.error \in ConnectionErrors THEN
        IF att < max_retries - 1
        THEN Handled("continue", exc, FALSE, retry_delay * (2 ^ att))
        ELSE Handled("break", exc, FALSE, 0)
    ELSE IF exc.error \in ClientErrors THEN
        Handled("raise", BusinessException("AUTH_SERVER_UNAVAILABLE"), FALSE, 0)
    ELSE
        Handled("raise", exc, FALSE, 0)

\* one pass of `for attempt in range(self.max_retries)`, and what follows
\* the loop when this was its last pass
RequestAttempt(tok, ans) ==
    /\ adminPc = "request"
    /\ LET t == TryBody(tokenCache, tokenFetches, tok, ans)
           h == ExceptClauses(t.result, attempt, reqUrl)
           failed_ == t.result.error # "none"
           again == failed_ /\ h.next = "continue" /\ attempt + 1 < max_retries
       IN
       /\ tokenFetches' = t.fetched
       /\ tokenCache' = IF failed_ /\ h.clear THEN clear_token_cache(t.cache) ELSE t.cache
       /\ reqs' = IF t.sent
                   THEN Append(reqs, [attempt |-> attempt, token |-> t.token, answer |-> ans])
                   ELSE reqs
       /\ clears' = IF failed_ /\ h.clear
                     THEN Append(clears, [attempt |-> attempt, issued |-> t.fetched])
                     ELSE clears
       /\ waits' = IF failed_ /\ h.wait > 0 THEN Append(waits, h.wait) ELSE waits
       /\ attempt' = IF again THEN attempt + 1 ELSE attempt
       /\ adminPc' = IF again THEN "request" ELSE "returned"
       /\ reqOutcome' =
             IF ~ failed_ THEN t.result
             ELSE IF again THEN reqOutcome
             ELSE IF h.next = "raise" THEN h.exc
             ELSE BusinessException("AUTH_SERVER_UNAVAILABLE")
    /\ UNCHANGED << adminCalls, adminOp, reqNo, reqMethod, reqUrl, opResult >>
    /\ UNCHANGED notAdmin

\* ------------------------------------------- KeycloakAdmin, its operations
\* KeycloakConfig: the endpoints, as the path segments after the realm
UserId == "u1"
user_url(user_id) == << "users", user_id >>
realm_roles_url == << "roles" >>
realm_role_url(role_name) == << "roles", role_name >>
realm_role_mapping_url(user_id) == << "users", user_id, "role-mappings", "realm" >>
client_role_mapping_url(user_id, client_id) ==
    << "users", user_id, "role-mappings", "clients", client_id >>
client_roles_url(client_id) == << "clients", client_id, "roles" >>
client_role_detail_url(client_id, role_name) == << "clients", client_id, "roles", role_name >>

\* the calls a caller makes: client_id None is written "None", as the
\* f-strings of KeycloakConfig write it
ClientIds == {"None", "c1"}
RoleNames == {"admin", "superuser"}

Op(name, client_id, role_name, fields) ==
    [name |-> name, client_id |-> client_id, role_name |-> role_name, fields |-> fields]

AdminOps ==
    { Op("add_user_uuidv7_attribute", "None", "-", FALSE), Op("delete_user_from_keycloak", "None", "-", FALSE) }
      \cup { Op("update_user_info", "None", "-", f) : f \in BOOLEAN }
      \cup { Op("assign_role_to_user", c, r, FALSE) : c \in ClientIds, r \in RoleNames }
      \cup { Op("revoke_role_from_user", c, "-", FALSE) : c \in ClientIds }
      \cup { Op("add_role", c, "admin", FALSE) : c \in ClientIds }

Call(method, url) == [method |-> method, url |-> url]

\* revoke_role_from_user: the url of its DELETE
RevokeUrl(op) == client_role_mapping_url(UserId, op.client_id)

\* the first _make_request_with_retry call of an operation
FirstCall(op) ==
    CASE op.name \in {"add_user_uuidv7_attribute", "update_user_info"} ->
            Call("GET", user_url(UserId))
      [] op.name = "assign_role_to_user" ->
            Call("GET", IF op.client_id = "None" THEN realm_role_url(op.role_name)
                        ELSE client_role_detail_url(op.client_id, op.role_name))
      [] op.name = "revoke_role_from_user" -> Call("DELETE", RevokeUrl(op))
      [] op.name = "delete_user_from_keycloak" -> Call("DELETE", user_url(UserId))
      [] op.name = "add_role" ->
            Call("POST", IF op.client_id = "None" THEN realm_roles_url
                         ELSE client_roles_url(op.client_id))

\* the second one, for the operations that read before they write
SecondCall(op) ==
    CASE op.name = "add_user_uuidv7_attribute" -> Call("PUT", user_url(UserId))
      [] op.name = "update_user_info" -> Call("PUT", user_url(UserId))
      [] op.name = "assign_role_to_user" ->
            Call("POST", IF op.client_id = "None" THEN realm_role_mapping_url(UserId)
                         ELSE client_role_mapping_url(UserId, op.client_id))

\* the statuses an operation takes for success in its last response
Accepted(op) ==
    CASE op.name \in {"add_user_uuidv7_attribute", "update_user_info"} -> {204}
      [] op.name \in {"assign_role_to_user", "revoke_role_from_user",
                       "delete_user_from_keycloak"} -> {200, 204}
      [] op.name = "add_role" -> {201, 204}

Rejected(op) ==
    IF op.name = "revoke_role_from_user"
    THEN BusinessException("ROLE_REVOCATION_FAILED")
    ELSE BusinessException("UNEXPECTED_ERROR")

\* `return True`
ReturnedTrue == [status |-> 0, body |-> "True", error |-> "none", code |-> "none"]

Step(next, res) == [next |-> next, result |-> res]

\* what an operation does with the response resp of its n-th call: the
\* next call, True, or an exception raised in its try block
AfterResponse(op, n, resp) ==
    IF n = 1 /\ op.name \in {"add_user_uuidv7_attribute", "update_user_info"} THEN
        IF resp.body = "none" THEN Step("raise", Raised("AttributeError", 0, "none"))
        ELSE IF op.name = "update_user_info" /\ ~ op.fields /\ resp.body = "empty"
        THEN Step("return", Response(resp.status, resp.body))
        ELSE Step("call", resp)
    ELSE IF n = 1 /\ op.name = "assign_role_to_user" THEN Step("call", resp)
    ELSE IF resp.status \in Accepted(op) THEN Step("return", resp)
    ELSE Step("raise", Rejected(op))

\* mutant: only the aiohttp errors are wrapped
RaisedByOperationAiohttpOnly(exc) ==
    IF exc.error \in ClientErrors THEN BusinessException("UNEXPECTED_ERROR") ELSE exc

\* `except BusinessException: raise` and `except Exception: raise
\* BusinessException(UNEXPECTED_ERROR, error_id=...)` of every operation
RaisedByOperation(exc) ==
    IF exc.error = "BusinessException" THEN exc ELSE BusinessException("UNEXPECTED_ERROR")

\* a caller starts an operation, which makes its first call
StartOperation(op) ==
    /\ adminPc = "idle"
    /\ adminCalls < MaxAdminCalls
    /\ adminCalls' = adminCalls + 1
    /\ adminOp' = op
    /\ reqNo' = 1
    /\ reqMethod' = FirstCall(op).method
    /\ reqUrl' = FirstCall(op).url
    /\ attempt' = 0
    /\ reqs' = <<>>
    /\ clears' = <<>>
    /\ waits' = <<>>
    /\ reqOutcome' = NoRequest
    /\ opResult' = NoRequest
    /\ adminPc' = "request"
    /\ UNCHANGED << tokenCache, tokenFetches >>
    /\ UNCHANGED notAdmin

\* _make_request_with_retry is over: the operation goes on with its result
AfterRequest ==
    /\ adminPc = "returned"
    /\ LET st == IF reqOutcome.error # "none"
                 THEN Step("raise", reqOutcome)
                 ELSE AfterResponse(adminOp, reqNo, reqOutcome)
       IN
       IF st.next = "call" THEN
           /\ reqNo' = reqNo + 1
           /\ reqMethod' = SecondCall(adminOp).method
           /\ reqUrl' = SecondCall(adminOp).url
           /\ attempt' = 0
           /\ reqs' = <<>>
           /\ clears' = <<>>
           /\ waits' = <<>>
           /\ reqOutcome' = NoRequest
           /\ adminPc' = "request"
           /\ UNCHANGED opResult
       ELSE
           /\ opResult' = IF st.next = "return" THEN ReturnedTrue
                           ELSE RaisedByOperation(st.result)
           /\ adminPc' = "done"
           /\ UNCHANGED << reqNo, reqMethod, reqUrl, attempt, reqs, clears, waits, reqOutcome >>
    /\ UNCHANGED << tokenCache, tokenFetches, adminCalls, adminOp >>
    /\ UNCHANGED notAdmin

\* the caller has the result; the token cache stays
AdminReturn ==
    /\ adminPc = "done"
    /\ adminPc' = "idle"
    /\ adminOp' = NoOp
    /\ reqNo' = 0
    /\ reqMethod' = "none"
    /\ reqUrl' = <<>>
    /\ attempt' = 0
    /\ reqs' = <<>>
    /\ clears' = <<>>
    /\ waits' = <<>>
    /\ reqOutcome' = NoRequest
    /\ opResult' = NoRequest
    /\ UNCHANGED << tokenCache, tokenFetches, adminCalls >>
    /\ UNCHANGED notAdmin

NextAdmin ==
    \/ \E op \in AdminOps : StartOperation(op)
    \/ \E tok \in TokenAnswers, ans \in HttpAnswers : RequestAttempt(tok, ans)
    \/ AfterRequest
    \/ AdminReturn

\* one caller after another using KeycloakAdmin
SpecAdmin == Init /\ [][NextAdmin]_vars

\* -------------------------------------------------------- KeycloakJWTHandler
\* the tokens a caller presents: whether the header decodes, its key id,
\* whether the signature verifies against that key, whether it has expired,
\* its audience (the configured client, another one, or none), and the roles
\* under resource_access.eldawood_ecomm
Roles == {"admin", "editor"}
Audiences == {"client", "other", "missing"}

Tokens ==
    { [wellformed |-> TRUE, kid |-> k, signed |-> sg, expired |-> ex, aud |-> au, roles |-> rs] :
        k \in KeyIds \cup {"none"}, sg \in BOOLEAN, ex \in BOOLEAN,
        au \in Audiences, rs \in SUBSET Roles }
      \cup { NoToken }

\* the roles argument: None, or a list
RolesArgs ==
    { NoRoles } \cup { [given |-> TRUE, list |-> l] :
                          l \in { <<>>, <<"admin">>, <<"editor", "admin">> } }

\* `if roles:`
Truthy(roles) == roles.given /\ roles.list # <<>>

AuthException(code) == Raised("AuthException", 0, code)

\* `return payload`
Payload == [status |-> 0, body |-> "payload", error |-> "none", code |-> "none"]

\* __get_public_keys under alru_cache(maxsize=1): the cached keys, or a
\* request for the keys, cached when it succeeds; any failure of it is
\* raised as AuthException(AUTH_SERVER_UNAVAILABLE)
get_public_keys(cache, server, reachable) ==
    IF cache.cached THEN
        [ exc |-> Payload, keys |-> cache.keys, cache |-> cache, fetched |-> 0 ]
    ELSE IF reachable THEN
        [ exc |-> Payload, keys |-> server,
          cache |-> [cached |-> TRUE, keys |-> server], fetched |-> 1 ]
    ELSE
        [ exc |-> AuthException("AUTH_SERVER_UNAVAILABLE"), keys |-> {},
          cache |-> NoKeys, fetched |-> 1 ]

\* jwt.decode(token, key, algorithms, audience): the signature, then exp,
\* then aud
decode(token) ==
    IF ~ token.signed THEN Raised("InvalidSignatureError", 0, "none")
    ELSE IF token.expired THEN Raised("ExpiredSignatureError", 0, "none")
    ELSE IF token.aud = "missing" THEN Raised("MissingRequiredClaimError", 0, "none")
    ELSE IF token.aud # "client" THEN Raised("InvalidAudienceError", 0, "none")
    ELSE Payload

\* any(role in roles for role in user_roles)
RoleMatch(token, roles) ==
    \E role \in token.roles : \E i \in 1..Len(roles.list) : roles.list[i] = role

\* lines 85-91: the role check after a successful decode
rbac(token, roles) ==
    IF Truthy(roles) /\ ~ RoleMatch(token, roles)
    THEN AuthException("AUTH_FORBIDDEN")
    ELSE Payload

\* the subclasses of jwt.InvalidTokenError that are not ExpiredSignatureError
InvalidTokenErrors ==
    {"DecodeError", "InvalidSignatureError", "MissingRequiredClaimError", "InvalidAudienceError"}

\* the except clauses of verify_token
verify_except(exc) ==
    IF exc.error = "none" THEN exc
    ELSE IF exc.error = "ExpiredSignatureError" THEN AuthException("AUTH_TOKEN_EXPIRED")
    ELSE IF exc.error \in InvalidTokenErrors THEN
        IF exc.error = "InvalidAudienceError"
        THEN AuthException("AUTH_INVALID_AUDIENCE")
        ELSE AuthException("AUTH_INVALID_SESSION")
    ELSE IF exc.error = "IndexError" THEN AuthException("AUTH_INVALID_SESSION")
    ELSE IF exc.error = "AuthException" THEN exc
    ELSE AuthException("UNEXPECTED_ERROR")

\* whether line 73 awaits the coroutine __get_public_keys() returns: it does
\* not, so public_keys is a coroutine object and `kid not in public_keys`
\* raises TypeError
RefetchAwaited == FALSE

Verified(res, cache, fetched) == [ result |-> res, cache |-> cache, fetched |-> fetched ]

\* the try block of verify_token after the first keys are there
verify_with_keys(token, roles, pk, server, reachable) ==
    IF token.kid \in pk.keys THEN
        LET d == decode(token) IN
        Verified(IF d.error # "none" THEN d ELSE rbac(token, roles), pk.cache, pk.fetched)
    ELSE IF ~ RefetchAwaited THEN
        Verified(Raised("TypeError", 0, "none"), NoKeys, pk.fetched)
    ELSE
        LET pk2 == get_public_keys(NoKeys, server, reachable) IN
        IF pk2.exc.error # "none" THEN Verified(pk2.exc, pk2.cache, pk.fetched + pk2.fetched)
        ELSE IF token.kid \notin pk2.keys
        THEN Verified(AuthException("AUTH_INVALID_SESSION"), pk2.cache, pk.fetched + pk2.fetched)
        ELSE LET d == decode(token) IN
             Verified(IF d.error # "none" THEN d ELSE rbac(token, roles),
                      pk2.cache, pk.fetched + pk2.fetched)

\* verify_token(token, roles): its result, the key cache it leaves and the
\* number of key requests it made
verify_token(token, roles, cache, server, reachable) ==
    LET r ==
        IF ~ token.wellformed THEN Verified(Raised("DecodeError", 0, "none"), cache, 0)
        ELSE IF token.kid = "none"
        THEN Verified(AuthException("AUTH_INVALID_SESSION"), cache, 0)
        ELSE LET pk == get_public_keys(cache, server, reachable) IN
             IF pk.exc.error # "none" THEN Verified(pk.exc, pk.cache, pk.fetched)
             ELSE verify_with_keys(token, roles, pk, server, reachable)
    IN Verified(verify_except(r.result), r.cache, r.fetched)

\* a caller verifies a token
VerifyToken(token, roles, reachable) ==
    /\ verifyResult = NoRequest
    /\ jwksUp' = reachable
    /\ firstKeys' = IF token.wellformed /\ token.kid # "none"
                    THEN get_public_keys(keyCache, serverKeys, reachable).keys
                    ELSE {}
    /\ LET v == verify_token(token, roles, keyCache, serverKeys, reachable) IN
       /\ verifyResult' = v.result
       /\ keyCache' = v.cache
       /\ keyFetches' = v.fetched
    /\ verifyToken' = token
    /\ verifyRoles' = roles
    /\ UNCHANGED serverKeys
    /\ UNCHANGED notJwt

\* the caller has the result; the key cache stays
VerifyReturn ==
    /\ verifyResult # NoRequest
    /\ verifyResult' = NoRequest
    /\ verifyToken' = NoToken
    /\ verifyRoles' = NoRoles
    /\ jwksUp' = TRUE
    /\ firstKeys' = {}
    /\ keyFetches' = 0
    /\ UNCHANGED << keyCache, serverKeys >>
    /\ UNCHANGED notJwt

\* the identity provider rotates its keys between two calls
RotateKeys(ks) ==
    /\ verifyResult = NoRequest
    /\ ks # serverKeys
    /\ serverKeys' = ks
    /\ UNCHANGED << keyCache, verifyToken, verifyRoles, jwksUp, firstKeys, keyFetches,
                    verifyResult >>
    /\ UNCHANGED notJwt

NextJwt ==
    \/ \E t \in Tokens, r \in RolesArgs, reachable \in BOOLEAN : VerifyToken(t, r, reachable)
    \/ VerifyReturn
    \/ \E ks \in SUBSET KeyIds : RotateKeys(ks)

\* one caller after another verifying tokens while the keys rotate
SpecJwt == Init /\ [][NextJwt]_vars

\* ------------------------------------------------- Localizer, locale_ctx
set_localeGlobal(ctx, task, locale) == [t \in Tasks |-> locale]

\* lang_ctx.set(locale) in the context of a task
set_locale(ctx, task, locale) == [ctx EXCEPT ![task] = locale]

\* lang_ctx.get() in the context of a task: the value set there, or the default
get_locale(ctx, task) == IF ctx[task] = Unset THEN "en" ELSE ctx[task]

\* self._data.get(lang, {}).get(key, f"[Missing message for '{key}']")
Lookup(d, lang, key) ==
    IF lang \in DOMAIN d /\ \E e \in d[lang] : e[1] = key
    THEN (CHOOSE e \in d[lang] : e[1] = key)[2]
    ELSE MissingMessage(key)

\* the entry the lru_cache holds for the arguments (key, lang)
Cached(cache, key, lang) == { e \in cache : e.key = key /\ e.lang = lang }

\* _cached_get_message(key, lang) under lru_cache: the value cached for the
\* arguments, or the lookup for the locale read inside, which is then cached
cached_get_message(cache, d, key, lang, current) ==
    IF Cached(cache, key, lang) # {}
    THEN [msg |-> (CHOOSE e \in Cached(cache, key, lang) : TRUE).msg, cache |-> cache]
    ELSE LET m == Lookup(d, current, key) IN
         [msg |-> m, cache |-> cache \cup { [key |-> key, lang |-> lang, msg |-> m] }]

\* the keyword arguments of get_message: none, or error_id
KwargsGiven == { {}, { << "{id}", "7" >> } }

\* msg.format(**kwargs): every placeholder replaced by its argument, KeyError
\* for a placeholder without argument
format(msg, kwargs) ==
    IF \E i \in 1..Len(msg) : msg[i] \in Placeholders /\ ~ \E a \in kwargs : a[1] = msg[i]
    THEN [exc |-> "KeyError", text |-> <<>>]
    ELSE [exc |-> "none",
          text |-> [i \in 1..Len(msg) |->
                       IF msg[i] \in Placeholders
                       THEN (CHOOSE a \in kwargs : a[1] = msg[i])[2]
                       ELSE msg[i]]]

\* get_message(key, **kwargs) called in a task: the message before
\* formatting, what is returned or raised, and the cache it leaves
get_message(ctx, cache, d, task, key, kwargs) ==
    LET lang == get_locale(ctx, task) IN
    IF kwargs = {} THEN
        LET c == cached_get_message(cache, d, key, lang, get_locale(ctx, task)) IN
        [lang |-> lang, msg |-> c.msg, returned |-> c.msg, exc |-> "none", cache |-> c.cache]
    ELSE
        LET m == Lookup(d, lang, key)
            f == format(m, kwargs) IN
        [lang |-> lang, msg |-> m, returned |-> f.text, exc |-> f.exc, cache |-> cache]

\* reload_language(lang): self._data[lang] is what the file holds now; the
\* lru_cache of _cached_get_message is not touched
CacheAfterReload(cache, lang) == cache

\* a request sets its locale
SetLocale(task, locale) ==
    /\ localized = NoCall
    /\ lang_ctx' = set_locale(lang_ctx, task, locale)
    /\ UNCHANGED << files, edits, data, messageCache, localized >>
    /\ UNCHANGED notLocalizer

\* a request asks for a message
GetMessage(task, key, kwargs) ==
    /\ localized = NoCall
    /\ LET g == get_message(lang_ctx, messageCache, data, task, key, kwargs) IN
       /\ messageCache' = g.cache
       /\ localized' = [op |-> "get_message", task |-> task, key |-> key,
                        kwargs |-> kwargs, lang |-> g.lang, msg |-> g.msg,
                        returned |-> g.returned, exc |-> g.exc]
    /\ UNCHANGED << files, edits, data, lang_ctx >>
    /\ UNCHANGED notLocalizer

\* reload_language(lang)
ReloadLanguage(lang) ==
    /\ localized = NoCall
    /\ LET f == load_json_file(files[lang]) IN
       /\ data' = IF f.exc = "none" THEN [data EXCEPT ![lang] = f.dict] ELSE data
       /\ messageCache' = IF f.exc = "none" THEN CacheAfterReload(messageCache, lang)
                          ELSE messageCache
       /\ localized' = [NoCall EXCEPT !.op = "reload_language", !.lang = lang,
                                      !.exc = f.exc]
    /\ UNCHANGED << files, edits, lang_ctx >>
    /\ UNCHANGED notLocalizer

\* the caller has the result
LocalizerReturn ==
    /\ localized # NoCall
    /\ localized' = NoCall
    /\ UNCHANGED << files, edits, data, messageCache, lang_ctx >>
    /\ UNCHANGED notLocalizer

\* a locale file is rewritten, removed or damaged on disk
EditFile(lang, content) ==
    /\ localized = NoCall
    /\ edits < MaxEdits
    /\ content # files[lang]
    /\ files' = [files EXCEPT ![lang] = content]
    /\ edits' = edits + 1
    /\ UNCHANGED << data, messageCache, lang_ctx, localized >>
    /\ UNCHANGED notLocalizer

NextLocalizer ==
    \/ \E t \in Tasks, l \in Locales : SetLocale(t, l)
    \/ \E t \in Tasks, k \in MessageKeys, kw \in KwargsGiven : GetMessage(t, k, kw)
    \/ \E l \in Langs : ReloadLanguage(l)
    \/ LocalizerReturn
    \/ \E l \in Langs, c \in FileContents : EditFile(l, c)

SpecLocalizer == Init /\ [][NextLocalizer]_vars

\* ================================================================== claims
Refused == "ConnectionRefusedError"

Last(a) == a[Len(a)]

AllRefused(a) == a # <<>> /\ \A i \in DOMAIN a : a[i] = Refused

Refusals(a) == Cardinality({i \in DOMAIN a : a[i] = Refused})

\* how create_stream must end after the broker's answer ans
ResultOf(ans) == IF ans = "ok" THEN "returned" ELSE ans

\* index i is the last occurrence of its name in the outcomes so far
LastOccurrence(i) ==
    \A j \in DOMAIN outcomes : j > i => outcomes[j].room # outcomes[i].room

\* C1: in every reachable state a stream name (non-empty after stripping) is
\* Ready in the Registry only if some broker create-stream call for that
\* name has answered ok or StreamAlreadyExists.
C1_ReadyOnlyIfConfirmed ==
    \A n \in Names :
        NameGiven(n) /\ streams_status[n] = "Ready" => n \in confirmed

\* C2: when every create-stream call is answered ConnectionRefusedError,
\* ensureStream(name, maxAttempts) makes exactly maxAttempts calls with a wait
\* between consecutive attempts and signals ConnectionRefusedError; and a
\* name whose creation _init_streams saw refused is marked Failed.
C2_RefusedExhaustsAttempts ==
    /\ (pc = "ensure_done" /\ count = 0 /\ retry > 0 /\ AllRefused(answers))
          => /\ Len(answers) = retry
             /\ sleeps >= retry - 1
             /\ result = Refused
    /\ (pc \in {"init", "init_done"} /\ outcomes # <<>> /\ Last(outcomes).answer = Refused)
          => streams_status[Last(outcomes).room] = "Failed"

\* C3: the retry is awaited: when the broker refuses k create-stream calls,
\* 0 < k < maxAttempts, ensureStream returns only after the (k+1)-th call
\* and reports the result of that last call; no retry is left unawaited.
C3_RetryAwaited ==
    (pc = "ensure_done" /\ count = 0
        /\ Refusals(answers) > 0 /\ Refusals(answers) < retry)
      => /\ Len(answers) = Refusals(answers) + 1
         /\ Last(answers) # Refused
         /\ result = ResultOf(Last(answers))
         /\ dropped = 0

\* C4: when _init_streams has returned, every name of the list has an
\* outcome, and the Registry holds Ready for a stream name (non-empty after
\* stripping) iff the broker's answer for it (its last one, for a name
\* listed twice) was ok or StreamAlreadyExists.
C4_RegistryMatchesOutcome ==
    pc = "init_done" =>
      /\ Len(outcomes) = Len(channels)
      /\ \A i \in DOMAIN outcomes :
            LastOccurrence(i) /\ NameGiven(outcomes[i].room) =>
              ( streams_status[outcomes[i].room] = "Ready"
                  <=> outcomes[i].answer \in {"ok", "StreamAlreadyExists"} )

\* the names of the outcomes that are exceptions other than StreamAlreadyExists
RECURSIVE FailedNames(_)
FailedNames(outs) ==
    IF outs = <<>> THEN <<>>
    ELSE IF Head(outs).outcome \in {Refused, "Exception"}
         THEN <<Head(outs).room>> \o FailedNames(Tail(outs))
         ELSE FailedNames(Tail(outs))

C6_BlankNameSkipped ==
    \A n \in Names :
        ~ NameGiven(n) => n \notin createCalled /\ streams_status[n] = "Unknown"

\* the name of the create_stream invocation a step makes
CreatedName == IF pc = "init" THEN channels[idx] ELSE room'

\* C7: create_stream for a name that is Ready in the Registry, answered
\* StreamAlreadyExists by the broker, creates nothing at the broker and
\* leaves the name Ready.
C7_EnsureReadyIdempotent ==
    [][ ( /\ Len(answers') = Len(answers) + 1
          /\ Last(answers') = "StreamAlreadyExists"
          /\ streams_status[CreatedName] = "Ready" )
        => /\ streams_status'[CreatedName] = "Ready"
           /\ brokerStreams' = brokerStreams ]_vars

\* C7 witness in the publish path: the recovery of a Ready name was answered
\* StreamAlreadyExists and the name is still Ready
C7_WitnessPublish ==
    /\ pc = "publish_done"
    /\ ensureCalls = 1
    /\ answers = << "StreamAlreadyExists" >>
    /\ streams_status[room] = "Ready"

\* C7 witness: _init_streams was given the same name twice, made it Ready
\* the first time and got StreamAlreadyExists the second time
C7_Witness ==
    /\ pc = "init_done"
    /\ Len(outcomes) = 2
    /\ outcomes[1].room = outcomes[2].room
    /\ outcomes[1].answer = "ok"
    /\ outcomes[2].answer = "StreamAlreadyExists"
    /\ streams_status[outcomes[2].room] = "Ready"

\* C8: a publish to a stream name whose send is answered StreamDoesNotExist
\* makes exactly one create_stream(room, 5) invocation, so at most 5 broker
\* create-stream calls.
C8_OneRecreationPerPublish ==
    (pc = "publish_done" /\ NameGiven(room) /\ sendAnswer = "StreamDoesNotExist")
      => /\ ensureCalls = 1
         /\ retry = PublishRetry
         /\ Len(answers) <= PublishRetry

\* C9: when the send is answered StreamDoesNotExist and the recreation fails
\* (refused, or any other error), the publish ends with an error for its
\* caller, not as a success.
C9_RecoveryFailureSurfaced ==
    ( /\ pc = "publish_done"
      /\ sendAnswer = "StreamDoesNotExist"
      /\ ensureCalls = 1
      /\ answers # <<>>
      /\ Last(answers) \in {Refused, "Exception"} )
      => result # "returned"

\* a publish hit StreamDoesNotExist and the broker then created the stream
Recovered ==
    /\ pc = "publish_done"
    /\ sendAnswer = "StreamDoesNotExist"
    /\ ensureCalls = 1
    /\ answers # <<>>
    /\ Last(answers) \in {"ok", "StreamAlreadyExists"}

\* C10 as claimed: after a successful recreation the send is made a second
\* time with the same stream and payload.
C10_SendRetriedOnce ==
    Recovered => Len(sent) = 2 /\ sent[2] = sent[1]

\* C10 as amended: after a successful recreation the publish does not send
\* again: Producer.send was called exactly once in that publish, with the
\* stream and the serialised message, and the publish returns.
C10_NoResendAfterRecovery ==
    Recovered =>
      /\ sent = << <<room, SerializeToString(message)>> >>
      /\ result = "returned"

\* C10 witness: a publish to a registered stream missing at the broker, recreated
C10_Witness ==
    /\ Recovered
    /\ Last(answers) = "ok"
    /\ streams_status[room] = "Ready"
    /\ room \in brokerStreams

\* the errors Producer.send can answer with other than StreamDoesNotExist
OtherSendErrors == SendFaults \ {"none"}

\* C11: a send error other than StreamDoesNotExist leaves send_to_stream as
\* that same error: the publish makes no create_stream invocation and no
\* broker create-stream call, sends once only, and changes neither the
\* Registry nor the broker's streams.
C11_OtherSendErrorPropagates ==
    [][ ( /\ pc = "idle"
          /\ pc' = "publish_done"
          /\ sendAnswer' \in OtherSendErrors )
        => /\ result' = sendAnswer'
           /\ ensureCalls' = 0
           /\ answers' = <<>>
           /\ Len(sent') = 1
           /\ streams_status' = streams_status
           /\ brokerVars' = brokerVars ]_vars

\* C11 witness: a publish to a Ready stream ended with the broker's
\* ConnectionRefusedError and the stream is still Ready
C11_Witness ==
    /\ pc = "publish_done"
    /\ sendAnswer = "ConnectionRefusedError"
    /\ result = "ConnectionRefusedError"
    /\ streams_status[room] = "Ready"

\* C12: when the message cannot be serialised the publish ends with the
\* encoder's error and nothing else was done: no Producer.send call, no
\* create_stream invocation and no broker create-stream call.
C12_EncodeFailurePropagates ==
    (pc = "publish_done" /\ message = "unserializable")
      => /\ result = "EncodeError"
         /\ sent = <<>>
         /\ sendAnswer = "none"
         /\ ensureCalls = 0
         /\ answers = <<>>

\* C12 witness: a publish of the unserialisable message to a stream the
\* broker holds has ended
C12_Witness ==
    /\ pc = "publish_done"
    /\ message = "unserializable"
    /\ room \in brokerStreams
    /\ result = "EncodeError"

\* C13: when the broker's create-stream call fails with an exception that is
\* neither ConnectionRefusedError nor StreamAlreadyExists, create_stream
\* makes no further call, raises it to its caller, and the stream is Failed
\* in the Registry afterwards, under _init_streams and under the recovery of
\* send_to_stream.
C13_OtherCreateErrorMarksFailed ==
    /\ ( /\ pc \in {"init", "init_done"}
         /\ outcomes # <<>>
         /\ Last(outcomes).answer = "Exception" )
         => /\ Last(outcomes).outcome = "Exception"
            /\ streams_status[Last(outcomes).room] = "Failed"
    /\ ( /\ pc = "publish_done"
         /\ ensureCalls = 1
         /\ answers # <<>>
         /\ Last(answers) = "Exception" )
         => /\ Len(answers) = 1
            /\ outcomes[1].outcome = "Exception"
            /\ streams_status[room] = "Failed"

\* the changes of a Registry state the design lists
ListedTransitions ==
    { <<"Unknown", "Ready">>, <<"Unknown", "Failed">>,
      <<"Ready", "Failed">>, <<"Failed", "Ready">> }

\* C14: every change of a name's Registry state is a listed transition, so a
\* name with an entry never goes back to Unknown; and a recovery of
\* send_to_stream whose create-stream call is refused leaves the name Failed.
C14_ListedTransitionsOnly ==
    [][ /\ \A n \in Names :
              streams_status'[n] # streams_status[n]
                => <<streams_status[n], streams_status'[n]>> \in ListedTransitions
        /\ ( /\ pc = "publish_recover"
             /\ Len(answers') = Len(answers) + 1
             /\ Last(answers') = Refused )
             => streams_status'[room] = "Failed" ]_vars

\* the messages that parse, in the order of the raw messages
RECURSIVE DecodedOf(_)
DecodedOf(raws) ==
    IF raws = <<>> THEN <<>>
    ELSE IF Len(Head(raws)) = 2 /\ Head(raws)[1] = "bytes"
         THEN <<Head(raws)[2]>> \o DecodedOf(Tail(raws))
         ELSE DecodedOf(Tail(raws))

\* C15: within one subscription the messages yielded so far, followed by
\* those still waiting in the queue, are exactly the messages the broker
\* handed to the callback that parse, in the broker's order; a message that
\* does not parse is dropped and never ends the subscription.
C15_YieldsDecodedInOrder ==
    /\ yielded \o messages = DecodedOf(SubSeq(feed, 1, offset))
    /\ sub \in {"exiting", "closed"} => raised # "none"

\* C15 witness: one well-formed, one malformed, one well-formed message were
\* delivered and the two well-formed ones were yielded in order
C15_Witness ==
    /\ feed = << SerializeToString("m1"), <<"garbage">>, SerializeToString("m2") >>
    /\ offset = 3
    /\ yielded = << "m1", "m2" >>
    /\ sub = "suspended"

\* C16: a consume call that created a consumer calls consumer.close() exactly
\* once on every way out: no call before the generator leaves its try, one
\* call when it has ended, never two.
C16_ClosedExactlyOnce ==
    /\ closeCalls <= 1
    /\ sub \notin {"closed"} => closeCalls = 0
    /\ (sub = "closed" /\ consumer) => closeCalls = 1
    /\ (sub = "closed" /\ ~ consumer) => closeCalls = 0

\* C16 witness: the caller was cancelled mid-stream, after a message was
\* yielded, and the consumer was closed once
C16_Witness ==
    /\ sub = "closed"
    /\ raised = "CancelledError"
    /\ exitReason = "loop"
    /\ yielded # <<>>
    /\ closeCalls = 1

\* C17: when consumer.close() fails in the cleanup, the caller does not see
\* the close failure: it sees what the exception in flight before the close
\* gives (that exception, the end of the generator, or the return of aclose).
C17_CloseFailureNotRaised ==
    (sub = "closed" /\ closeAnswer = "CloseError")
      => /\ observed # "CloseError"
         /\ pending = "none" => observed = "StopAsyncIteration"
         /\ pending = "GeneratorExit" => observed = "closed"
         /\ pending \notin {"none", "GeneratorExit"} => observed = pending

\* C17 witness: consumer.start() failed, then close failed too, and the
\* caller got the exception of start
C17_Witness ==
    /\ sub = "closed"
    /\ closeAnswer = "CloseError"
    /\ exitReason = "start"
    /\ raised = "ConnectionRefusedError"
    /\ observed = "ConnectionRefusedError"

\* C18: an unexpected exception raised in the pull loop reaches the caller
\* of the generator after the cleanup; the generator does not just end.
C18_LoopErrorReraised ==
    (sub = "closed" /\ exitReason = "loop" /\ raised \in LoopErrors)
      => observed = raised

\* C19: when consumer.start() or consumer.subscribe() fails, the caller gets
\* that exception, no message was delivered or yielded, and the consumer was
\* closed.
C19_OpenFailurePropagates ==
    /\ (sub \in {"exiting", "closed"} /\ exitReason \in {"start", "subscribe"})
         => /\ pending = raised
            /\ yielded = <<>>
            /\ offset = 0
    /\ (sub = "closed" /\ exitReason \in {"start", "subscribe"})
         => /\ observed = raised
            /\ closeCalls = 1

\* C19 witness: subscribe failed after a successful start
C19_Witness ==
    /\ sub = "closed"
    /\ exitReason = "subscribe"
    /\ raised = "Exception"
    /\ observed = "Exception"
    /\ closeCalls = 1
    /\ closeAnswer = "ok"

\* C20: the queue of a subscription is bounded, by a capacity below the
\* number of messages the stream holds: the callback blocks instead of
\* letting every message of the stream wait in the queue.
C20_QueueBounded ==
    Len(messages) <= MaxFeed - 1

\* C21: once the caller is cancelled while it waits on the empty queue, the
\* subscription eventually is closed, with its consumer connection closed,
\* and from the cancellation on no message is yielded.
CancelRequested == raised = "CancelledError" /\ exitReason = "loop"

SubscriptionClosed == sub = "closed" /\ closeCalls = 1

C21_CancelClosesSubscription ==
    /\ CancelRequested ~> SubscriptionClosed
    /\ [][CancelRequested /\ CancelRequested' => yielded' = yielded]_vars

C21_Witness ==
    /\ CancelRequested
    /\ SubscriptionClosed
    /\ yielded # <<>>
    /\ offset < Len(feed)

\* C22: no step of consume_messages changes the registry, whatever the step
\* (open, subscribe, deliver, yield, cancel, fail, close) and whatever the
\* stream consumed.
C22_ConsumeLeavesRegistry == [][streams_status' = streams_status]_vars

C22_Witness ==
    /\ sub = "closed"
    /\ raised = "CancelledError"
    /\ closeCalls = 1
    /\ streams_status[subRoom] = "Unknown"

\* C23: however often the gateway is constructed, one Producer is created.
C23_OneProducer == producers = 1

\* C24: what a call of consume_messages yields was delivered to its own
\* callback, never to another call's, also when both consume one stream;
\* and it is the decodable part of its stream read from the first message.
MessagesOf(entries) == [i \in 1..Len(entries) |-> entries[i][2]]

C24_SubscriptionsShareNothing ==
    \A s \in Subs : calls[s].state # "idle" =>
        /\ \A i \in 1..Len(calls[s].got) : calls[s].got[i][1] = s
        /\ MessagesOf(calls[s].got) \o MessagesOf(queues[QueueOf(s)])
              = DecodedOf(SubSeq(logs[calls[s].room], 1, calls[s].offset))

C24_Witness ==
    /\ calls[1].state = "open" /\ calls[2].state = "open"
    /\ calls[1].room = calls[2].room
    /\ calls[1].got # <<>> /\ calls[2].got # <<>>
    /\ Len(calls[1].got) < Len(calls[2].got)

C27_RevokeRealmRole ==
    adminOp.name = "revoke_role_from_user" /\ adminPc = "request" =>
        /\ reqMethod = "DELETE"
        /\ reqUrl = IF adminOp.client_id = "None"
                    THEN realm_role_mapping_url(UserId)
                    ELSE client_role_mapping_url(UserId, adminOp.client_id)

\* C28: _make_request_with_retry has ended after at most max_retries
\* requests, with a response or with a BusinessException.
C28_ResponseOrBusinessException ==
    adminPc = "returned" =>
        /\ Len(reqs) <= max_retries
        /\ reqOutcome.error \in {"none", "BusinessException"}

\* C29: a request rejected with 401 or 403 before the last attempt is
\* followed by a clear of the token cache, and every later request of the
\* call carries a token issued after that clear; rejected in the last
\* attempt, the call raises BusinessException(AUTH_TOKEN_EXPIRED).
RejectedAt(i) == reqs[i].answer.status \in {401, 403}

C29_RejectedTokenNotReused ==
    \A i \in 1..Len(reqs) :
        RejectedAt(i) =>
            IF reqs[i].attempt < max_retries - 1 THEN
                /\ \E c \in 1..Len(clears) :
                      /\ clears[c].attempt = reqs[i].attempt
                      /\ \A j \in 1..Len(reqs) :
                            j > i => reqs[j].token > clears[c].issued
                /\ i = Len(reqs) /\ adminPc = "request" => tokenCache = 0
            ELSE
                reqOutcome = BusinessException("AUTH_TOKEN_EXPIRED")

C29_Witness ==
    /\ adminPc = "returned"
    /\ Len(reqs) = max_retries
    /\ RejectedAt(1) /\ RejectedAt(2) /\ RejectedAt(3)
    /\ reqs[1].token < reqs[2].token /\ reqs[2].token < reqs[3].token
    /\ reqNo = 2

\* C30: a call whose requests all failed to connect or timed out has made
\* max_retries requests, waited retry_delay * 2^attempt between them, and
\* raised BusinessException(AUTH_SERVER_UNAVAILABLE).
ConnectionFailed(i) == reqs[i].answer.error \in {"ClientConnectionError", "TimeoutError"}

C30_ConnectionFailureRetried ==
    adminPc = "returned" /\ reqs # <<>> /\ (\A i \in 1..Len(reqs) : ConnectionFailed(i)) =>
        /\ Len(reqs) = max_retries
        /\ waits = [a \in 1..(max_retries - 1) |-> retry_delay * (2 ^ (a - 1))]
        /\ reqOutcome = BusinessException("AUTH_SERVER_UNAVAILABLE")

\* C25: for a token that is validly signed with a key the identity provider
\* publishes, unexpired and of the right audience, and with the provider
\* reachable: verify_token with a non-empty roles list returns the payload
\* when one of the token's client roles is in the list and raises
\* AuthException(AUTH_FORBIDDEN) when none is; with roles empty or None it
\* returns the payload.
ValidToken(token) ==
    /\ token.wellformed /\ token.signed /\ ~ token.expired /\ token.aud = "client"
    /\ token.kid \in serverKeys

InList(role, list) == \E i \in 1..Len(list) : list[i] = role

C25_RolesDecideAccess ==
    verifyResult # NoRequest /\ ValidToken(verifyToken) /\ jwksUp =>
        IF /\ verifyRoles.given /\ verifyRoles.list # <<>>
           /\ ~ \E role \in verifyToken.roles : InList(role, verifyRoles.list)
        THEN verifyResult = AuthException("AUTH_FORBIDDEN")
        ELSE verifyResult = Payload

\* C31: a request answered with an error status other than 401 and 403 is
\* the last request of its call, and the call has raised BusinessException
\* with USER_NOT_FOUND for a 404 on a url containing 'user', UNEXPECTED_ERROR
\* for another 404 or 4xx, AUTH_SERVER_UNAVAILABLE for 500 and above.
CodeForStatus(st, url) ==
    IF st = 404 THEN
        IF \E i \in 1..Len(url) : url[i] \in {"users", "superuser"}
        THEN "USER_NOT_FOUND" ELSE "UNEXPECTED_ERROR"
    ELSE IF st >= 500 THEN "AUTH_SERVER_UNAVAILABLE"
    ELSE "UNEXPECTED_ERROR"

C31_OtherStatusNotRetried ==
    \A i \in 1..Len(reqs) :
        reqs[i].answer.status >= 400 /\ reqs[i].answer.status \notin {401, 403} =>
            /\ i = Len(reqs)
            /\ adminPc # "request"
            /\ reqOutcome = BusinessException(CodeForStatus(reqs[i].answer.status, reqUrl))

C31_Witness ==
    /\ adminPc = "returned"
    /\ Len(reqs) = 2
    /\ reqs[2].answer.status = 404
    /\ reqUrl = realm_role_url("superuser")
    /\ reqOutcome = BusinessException("USER_NOT_FOUND")

\* C32: the token endpoint is called only while no token is cached; a
\* request sent while a token is cached carries that token; a cached token
\* goes away only when the request carrying it is rejected with 401 or 403;
\* and a failed call of the token endpoint leaves the cache empty.
LastReq(rs) == rs[Len(rs)]

C32_TokenCached ==
    [][/\ tokenFetches' # tokenFetches => tokenCache = 0
       /\ tokenCache # 0 /\ Len(reqs') > Len(reqs) => LastReq(reqs').token = tokenCache
       /\ tokenCache # 0 /\ tokenCache' # tokenCache =>
             /\ tokenCache' = 0
             /\ Len(reqs') > Len(reqs)
             /\ LastReq(reqs').answer.status \in {401, 403}
       /\ tokenFetches' # tokenFetches /\ Len(reqs') = Len(reqs) /\ adminPc = "request"
             => tokenCache' = 0]_vars

C32_Witness ==
    /\ adminPc = "returned"
    /\ reqNo = 2
    /\ reqOutcome.error = "none"
    /\ Len(reqs) = 1 /\ reqs[1].token = 1
    /\ tokenFetches = 1 /\ tokenCache = 1

\* C33: when the token's key id is not among the keys verify_token first
\* holds, the keys are fetched once more; a key id that the fetched keys
\* contain makes the token verified against that key, and accepted when it
\* is valid, and one they do not contain gives
\* AuthException(AUTH_INVALID_SESSION).
KeyMissed ==
    /\ verifyResult # NoRequest
    /\ verifyToken.wellformed /\ verifyToken.kid # "none"
    /\ jwksUp
    /\ verifyToken.kid \notin firstKeys

C33_KeyRotationRefetch ==
    KeyMissed =>
        /\ keyCache = [cached |-> TRUE, keys |-> serverKeys]
        /\ IF verifyToken.kid \notin serverKeys
           THEN verifyResult = AuthException("AUTH_INVALID_SESSION")
           ELSE ValidToken(verifyToken) /\ ~ verifyRoles.given => verifyResult = Payload

\* C34: a verify_token call that has failed has raised AuthException with
\* the code of its case: server unavailable, token expired, wrong audience,
\* forbidden, invalid session for the rest; UNEXPECTED_ERROR for none of them.
FailureCode(token, roles, first, server, up) ==
    IF ~ token.wellformed \/ token.kid = "none" THEN "AUTH_INVALID_SESSION"
    ELSE IF ~ up /\ ~ (token.kid \in first) THEN "AUTH_SERVER_UNAVAILABLE"
    ELSE IF token.kid \notin first /\ token.kid \notin server THEN "AUTH_INVALID_SESSION"
    ELSE IF ~ token.signed THEN "AUTH_INVALID_SESSION"
    ELSE IF token.expired THEN "AUTH_TOKEN_EXPIRED"
    ELSE IF token.aud = "missing" THEN "AUTH_INVALID_SESSION"
    ELSE IF token.aud # "client" THEN "AUTH_INVALID_AUDIENCE"
    ELSE "AUTH_FORBIDDEN"

C34_FailureCodes ==
    verifyResult # NoRequest /\ verifyResult # Payload =>
        verifyResult = AuthException(FailureCode(verifyToken, verifyRoles, firstKeys,
                                                 serverKeys, jwksUp))

\* C35: a publish answered StreamDoesNotExist makes the recreation attempt
\* for a name without Registry entry as for a registered one: the call does
\* not end with a lookup error, and it ends after its ensureStream.
C35_RecoveryForUnknownName ==
    /\ sendAnswer = "StreamDoesNotExist" /\ pc \in {"publish_recover", "publish_done"}
        => result # "KeyError"
    /\ sendAnswer = "StreamDoesNotExist" /\ pc = "publish_done"
        => ensureCalls >= 1 /\ Len(outcomes) = 1 /\ outcomes[1].room = room

\* C36: get_message(key) without placeholders returns the text the in-memory
\* data holds now for the caller's locale and the key, or the missing-message
\* text, which is the message a call with placeholders formats; it is never
\* a value cached before reload_language changed the data.
C36_MessageReflectsData ==
    localized.op = "get_message" /\ localized.kwargs = {} =>
        /\ localized.returned = Lookup(data, localized.lang, localized.key)
        /\ \A kw \in KwargsGiven \ { {} } :
              localized.returned =
                  get_message(lang_ctx, messageCache, data, localized.task,
                              localized.key, kw).msg

\* C37: the locale belongs to the task's context: a set_locale in one task
\* changes neither what get_locale nor what get_message returns in the other
\* task, and a task that has not called set_locale reads 'en'.
Answer(g) == [lang |-> g.lang, returned |-> g.returned, exc |-> g.exc]

C37_LocalePerTask ==
    [][ \A t \in Tasks :
          /\ lang_ctx[t] = Unset => get_locale(lang_ctx, t) = "en"
          /\ (\E s \in Tasks \ {t} : lang_ctx'[s] # lang_ctx[s]) =>
                /\ get_locale(lang_ctx', t) = get_locale(lang_ctx, t)
                /\ \A k \in MessageKeys, kw \in KwargsGiven :
                      Answer(get_message(lang_ctx', messageCache', data', t, k, kw))
                        = Answer(get_message(lang_ctx, messageCache, data, t, k, kw)) ]_vars

C37_Witness ==
    /\ lang_ctx[1] = "ar" /\ lang_ctx[2] = Unset
    /\ \E e \in messageCache : e.lang = "ar" /\ e.msg = Marhaba
    /\ localized.op = "get_message" /\ localized.task = 2
    /\ localized.lang = "en" /\ localized.returned = Hello

====================================================================
